---- MODULE Spec2Model ----
(***************************************************************************)
(* Review image upload and asset lifecycle of the review API               *)
(* (app/api/routers/reviews.py): create_review, upload_review_image and    *)
(* delete_review, run by concurrent request workers over one database and  *)
(* one upload directory; and the HTTP client of the bot                    *)
(* (bot/api_client.py), which turns what a request to that API gives into  *)
(* a returned response or a raised exception.                              *)
(*                                                                         *)
(* Strings are TLA+ strings (Len, SubSeq and \o act on them as on Python   *)
(* str).  A payload is the record [head, size]: head holds the leading     *)
(* bytes of the body (all of them when the body is short) and size is      *)
(* len(content).                                                           *)
(***************************************************************************)
EXTENDS Integers, Sequences, FiniteSets, TLC

VARIABLES
    db,      \* reviews table: id -> row, DOMAIN db = ids of the stored rows
    nextId,  \* autoincrement primary key of the next inserted row
    fs,      \* {UPLOADS_DIR}/reviews: review id -> (file name -> content)
    issued,  \* uuid4 values drawn so far
    pc,      \* per worker: position in the handler it runs
    req,     \* per worker: the locals of the running handler
    resp,    \* per worker: the response of the handler once it has returned
    inbox,   \* per worker: a received upload request waiting to be handled
    client,  \* the bot's client: what its request was given, and its outcome
    limiter, \* the bot's RateLimiter: max_requests, window_seconds, _entries
    clock,   \* what time.time() returns
    calls,   \* the calls of the limiter made so far, with what they returned
    bot      \* the bot's photo menu: the action it ran and the text it shows

vars == <<db, nextId, fs, issued, pc, req, resp, inbox, client, limiter,
          clock, calls, bot>>

(***************************************************************************)
(* Bounds                                                                  *)
(***************************************************************************)
MaxReviews == 1
MaxTokens == 2
Procs == {"w1", "w2"}

ReviewIds == 1..MaxReviews
AllTokens == <<"0a", "1b", "2c", "3d", "4e", "5f">>
Tokens == {AllTokens[i] : i \in 1..MaxTokens}

(***************************************************************************)
(* Program constants                                                       *)
(***************************************************************************)
None == "None"
MAX_IMAGE_SIZE == 5 * 1024 * 1024
UPLOADS_DIR == "uploads"

SIG_JPEG == <<255, 216, 255>>
SIG_PNG == <<137, 80, 78, 71, 13, 10, 26, 10>>
SIG_GIF87a == <<71, 73, 70, 56, 55, 97>>
SIG_GIF89a == <<71, 73, 70, 56, 57, 97>>
SIG_RIFF == <<82, 73, 70, 70>>
IMAGE_SIGNATURES == {SIG_JPEG, SIG_PNG, SIG_GIF87a, SIG_GIF89a, SIG_RIFF}

(***************************************************************************)
(* str / bytes helpers                                                     *)
(***************************************************************************)
\* s.startswith(prefix) for str and for byte sequences
StrStartsWith(s, prefix) ==
    /\ Len(s) >= Len(prefix)
    /\ SubSeq(s, 1, Len(prefix)) = prefix

\* content.startswith(signature) on a payload
BytesStartWith(content, signature) ==
    /\ content.size >= Len(signature)
    /\ StrStartsWith(content.head, signature)

\* Python truthiness of an optional str
Truthy(s) == s # None /\ s # ""

Upper == "ABCDEFGHIJKLMNOPQRSTUVWXYZ"
Lower == "abcdefghijklmnopqrstuvwxyz"

LowerChar(c) ==
    IF \E i \in 1..Len(Upper) : SubSeq(Upper, i, i) = c
    THEN LET i == CHOOSE j \in 1..Len(Upper) : SubSeq(Upper, j, j) = c
         IN  SubSeq(Lower, i, i)
    ELSE c

RECURSIVE StrLower(_)
StrLower(s) ==
    IF Len(s) = 0 THEN ""
    ELSE LowerChar(SubSeq(s, 1, 1)) \o StrLower(SubSeq(s, 2, Len(s)))

HasDot(s) == \E i \in 1..Len(s) : SubSeq(s, i, i) = "."

\* s.rsplit(".", 1)[-1] for s containing a dot: what follows the last dot
AfterLastDot(s) ==
    LET i == CHOOSE j \in 1..Len(s) :
                 /\ SubSeq(s, j, j) = "."
                 /\ \A k \in (j + 1)..Len(s) : SubSeq(s, k, k) # "."
    IN  SubSeq(s, i + 1, Len(s))

(***************************************************************************)
(* Validation helpers of upload_review_image                               *)
(***************************************************************************)
\* variant: the prefix test taken the wrong way round as well
_validate_image_signature_EitherWay(content) ==
    \E signature \in IMAGE_SIGNATURES :
        \/ BytesStartWith(content, signature)
        \/ /\ content.size <= Len(signature)
           /\ StrStartsWith(signature, content.head)

_validate_image_signature(content) ==
    \E signature \in IMAGE_SIGNATURES : BytesStartWith(content, signature)

allowed_extensions == {".jpg", ".jpeg", ".png", ".gif", ".webp"}

\* variant: the extension compared without lower-casing it
_get_safe_extension_CaseSensitive(filename) ==
    IF Truthy(filename) /\ HasDot(filename)
    THEN LET ext == "." \o AfterLastDot(filename)
         IN  IF ext \in allowed_extensions THEN ext ELSE ".jpg"
    ELSE ".jpg"

_get_safe_extension(filename) ==
    IF Truthy(filename) /\ HasDot(filename)
    THEN LET ext == "." \o StrLower(AfterLastDot(filename))
         IN  IF ext \in allowed_extensions THEN ext ELSE ".jpg"
    ELSE ".jpg"

\* variant: the prefix without its slash
ContentTypeOk_NoSlash(content_type) ==
    Truthy(content_type) /\ StrStartsWith(content_type, "image")

ContentTypeOk(content_type) ==
    Truthy(content_type) /\ StrStartsWith(content_type, "image/")

\* variant: the ceiling itself is refused
SizeOk_Strict(content) == ~(content.size >= MAX_IMAGE_SIZE)

SizeOk(content) == ~(content.size > MAX_IMAGE_SIZE)

\* the fields of a review representation when a response carries none
NoBody ==
    [id |-> 0, author_telegram_id |-> None, rating |-> 0, text |-> "",
     image_path |-> None, image_url |-> None]

\* an HTTPException, or FastAPI's own error response: a status and a detail
Response(status, detail) ==
    [status |-> status, detail |-> detail, body |-> NoBody]

NoResponse == Response(0, "")

SizeDetail ==
    "File size exceeds maximum allowed size of "
        \o ToString(MAX_IMAGE_SIZE \div (1024 * 1024)) \o "MB"

\* variant: the row is not looked up before the checks
UploadRejection_NoLookup(found, content_type, content) ==
    IF ~ContentTypeOk(content_type)
    THEN Response(400, "File must be an image")
    ELSE IF ~SizeOk(content) THEN Response(400, SizeDetail)
    ELSE IF ~_validate_image_signature(content)
         THEN Response(400, "Invalid image file format")
    ELSE NoResponse

\* variant: the size is checked before the declared type
UploadRejection_SizeFirst(found, content_type, content) ==
    IF ~found THEN Response(404, "Review not found")
    ELSE IF ~SizeOk(content) THEN Response(400, SizeDetail)
    ELSE IF ~ContentTypeOk(content_type)
         THEN Response(400, "File must be an image")
    ELSE IF ~_validate_image_signature(content)
         THEN Response(400, "Invalid image file format")
    ELSE NoResponse

\* The checks of upload_review_image in the order the handler applies them:
\* the response of the first check that fails, NoResponse when all pass.
UploadRejection(found, content_type, content) ==
    IF ~found THEN Response(404, "Review not found")
    ELSE IF ~ContentTypeOk(content_type)
         THEN Response(400, "File must be an image")
    ELSE IF ~SizeOk(content) THEN Response(400, SizeDetail)
    ELSE IF ~_validate_image_signature(content)
         THEN Response(400, "Invalid image file format")
    ELSE NoResponse

(***************************************************************************)
(* Requests, rows and files                                                *)
(***************************************************************************)
Payload(head, size) == [head |-> head, size |-> size]

NoContent == Payload(<<>>, 0)

JPEG_SMALL == Payload(<<255, 216, 255, 224, 0, 16, 74, 70, 73, 70>>, 112)
PNG_SMALL == Payload(SIG_PNG, 8)
TEXT_SMALL == Payload(<<110, 111, 116, 32, 97, 32, 114, 101, 97, 108>>, 21)
JPEG_OVERSIZE == Payload(<<255, 216, 255, 224, 0, 16, 74, 70, 73, 70>>,
                         6 * 1024 * 1024)

\* What the concurrent workers of Spec are sent.
ReqContentTypes == {"image/jpeg", "text/plain"}
ReqPayloads == {JPEG_SMALL, PNG_SMALL, TEXT_SMALL, JPEG_OVERSIZE}
ReqFilenames == {"photo.PNG"}

\* A JSON request body.  fields are the keys it has, nulls those of them
\* whose value is null; author_telegram_id is written in decimal, so that
\* it can be wider than the integers of the checker.
ReviewData(fields, nulls, author_telegram_id, rating, text) ==
    [fields |-> fields, nulls |-> nulls,
     author_telegram_id |-> author_telegram_id, rating |-> rating,
     text |-> text]

NoData == ReviewData({}, {}, None, 0, "")

\* the body the tests create their review with
sample_review_data == ReviewData({"rating", "text"}, {}, None, 8, "Great movie!")

NoReq ==
    [op |-> "none", rid |-> 0, content |-> NoContent, name |-> "",
     purge |-> "none", err |-> "", data |-> NoData]

NoInbox == [rid |-> 0, content_type |-> None, content |-> NoContent,
            filename |-> None]

\* Review(author_name=..., rating=data.rating, text=data.text, ...): the row
\* create_review builds from a valid body.  author_telegram_id is not among
\* the keyword arguments, so the column takes its default, and image_path is
\* not set at creation.
NewReview(data) ==
    [author_telegram_id |-> None, rating |-> data.rating, text |-> data.text,
     image_path |-> None]

\* the row of the tests' review once its image_path is the given one
Row(image_path) ==
    [NewReview(sample_review_data) EXCEPT !.image_path = image_path]

\* variant: the stored path handed out as the URL
ReviewRead_BarePath(id, review) ==
    [id |-> id, author_telegram_id |-> review.author_telegram_id,
     rating |-> review.rating, text |-> review.text,
     image_path |-> review.image_path,
     image_url |-> IF Truthy(review.image_path) THEN review.image_path
                   ELSE None]

\* ReviewRead.model_validate(review) with its computed field image_url
ReviewRead(id, review) ==
    [id |-> id, author_telegram_id |-> review.author_telegram_id,
     rating |-> review.rating, text |-> review.text,
     image_path |-> review.image_path,
     image_url |-> IF Truthy(review.image_path)
                   THEN "/" \o review.image_path
                   ELSE None]

\* a handler returns the review: response_model=ReviewRead
Returns(status, id, review) ==
    [status |-> status, detail |-> "", body |-> ReviewRead(id, review)]

EmptyDir == [f \in {} |-> NoContent]

\* variant: the path without the upload root
relative_path_BelowRoot(review_id, safe_filename) ==
    "reviews/" \o ToString(review_id) \o "/" \o safe_filename

\* f"{UPLOADS_DIR}/reviews/{review_id}/{safe_filename}"
relative_path(review_id, safe_filename) ==
    UPLOADS_DIR \o "/reviews/" \o ToString(review_id) \o "/" \o safe_filename

\* variant: a name that is not fresh
uuid4_Repeats(used) == {AllTokens[1]}

\* uuid.uuid4().hex: a 128-bit random value, one that was never drawn before.
\* The values are opaque, so the fresh ones are drawn in a fixed order.
uuid4(used) ==
    {t \in Tokens \ used :
        \A i, j \in 1..MaxTokens :
            (AllTokens[i] = t /\ AllTokens[j] \in Tokens \ used) => i <= j}

\* variant: the new file takes the place of the ones before it
write_bytes_Replaces(dir, name, content) ==
    [f \in {name} |-> content]

\* the file system after file_path.write_bytes(content) into an existing
\* directory: the file is created, or truncated and rewritten
write_bytes(dir, name, content) ==
    [f \in DOMAIN dir \cup {name} |-> IF f = name THEN content ELSE dir[f]]

RemoveKey(f, k) == [x \in DOMAIN f \ {k} |-> f[x]]

Restrict(f, S) == [x \in S |-> f[x]]

(***************************************************************************)
(* The client of the bot (bot/api_client.py): values                       *)
(*                                                                         *)
(* A decoded JSON value is the record [t, s, errs]: t is its Python type,  *)
(* s is str() of it and errs holds the entries when it is a list.  A list  *)
(* entry is [t, loc, msg]; its loc is [t, items] (the characters, for a    *)
(* str) and its msg is [has, s].                                           *)
(***************************************************************************)
JStr(s) == [t |-> "str", s |-> s, errs |-> <<>>]
JNull == [t |-> "NoneType", s |-> "None", errs |-> <<>>]
JInt(s) == [t |-> "int", s |-> s, errs |-> <<>>]
JDict(s) == [t |-> "dict", s |-> s, errs |-> <<>>]
JList(errs) == [t |-> "list", s |-> "", errs |-> errs]

Loc(t, items) == [t |-> t, items |-> items]
NoLoc == Loc("missing", <<>>)
Msg(s) == [has |-> TRUE, s |-> s]
NoMsg == [has |-> FALSE, s |-> ""]
ErrDict(loc, msg) == [t |-> "dict", loc |-> loc, msg |-> msg]
ErrOther(t) == [t |-> t, loc |-> NoLoc, msg |-> NoMsg]

\* a response body: whether response.json() can decode it, the type of the
\* decoded value and, for an object, its "detail" member
Body(json, t, has_detail, detail) ==
    [json |-> json, t |-> t, has_detail |-> has_detail, detail |-> detail]
NotJson == Body(FALSE, "", FALSE, JNull)
JsonObject(detail) == Body(TRUE, "dict", TRUE, detail)
JsonObjectWithoutDetail == Body(TRUE, "dict", FALSE, JNull)
JsonOther(t) == Body(TRUE, t, FALSE, JNull)

\* what client.request gives: an httpx.Response, or a raised exception of
\* class raised whose str() is text
HttpResponse(status_code, body) ==
    [raised |-> "", text |-> "", status_code |-> status_code, body |-> body]
Raised(class, text) ==
    [raised |-> class, text |-> text, status_code |-> 0, body |-> NotJson]
NoResult == HttpResponse(0, NotJson)

\* what _make_request ends with: the response returned, or an exception
\* of class exc with the attributes ApiError.__init__ sets
Outcome(kind, exc, message, status_code, details, response) ==
    [kind |-> kind, exc |-> exc, message |-> message,
     status_code |-> status_code, details |-> details, response |-> response]
NoOutcome == Outcome("none", "", JNull, 0, <<>>, NoResult)
Return(response) == Outcome("return", "", JNull, 0, <<>>, response)
Propagates(exc) == Outcome("raise", exc, JNull, 0, <<>>, NoResult)
ApiNotFound(message) ==
    Outcome("raise", "ApiNotFound", message, 404, <<>>, NoResult)
ApiValidationError(message, details) ==
    Outcome("raise", "ApiValidationError", message, 422, details, NoResult)
ApiUnavailable(message) ==
    Outcome("raise", "ApiUnavailable", message, 503, <<>>, NoResult)
ApiBadRequest(message) ==
    Outcome("raise", "ApiBadRequest", message, 400, <<>>, NoResult)

NoCall == [received |-> NoResult, outcome |-> NoOutcome]

(***************************************************************************)
(* The bot's rate limiter and photo menu                                   *)
(***************************************************************************)
RateLimitEntry(count, window_start) ==
    [count |-> count, window_start |-> window_start]

\* RateLimiter.__init__: no entry yet
RateLimiter(max_requests, window_seconds) ==
    [max_requests |-> max_requests, window_seconds |-> window_seconds,
     entries |-> [user_id \in {} |-> RateLimitEntry(0, 0)]]

\* the instance the handlers share
rate_limiter == RateLimiter(30, 60)

\* what the photo menu did last: the action, its review, the text shown
Shown(action, review_id, text) ==
    [action |-> action, review_id |-> review_id, text |-> text]
NoShown == Shown("", 0, "")

\* the bot has done nothing yet
BotAtRest ==
    /\ limiter = rate_limiter
    /\ clock = 0
    /\ calls = <<>>
    /\ bot = NoShown

Init ==
    /\ db = [i \in {} |-> Row(None)]
    /\ nextId = 1
    /\ fs = [i \in {} |-> EmptyDir]
    /\ issued = {}
    /\ pc = [p \in Procs |-> "idle"]
    /\ req = [p \in Procs |-> NoReq]
    /\ resp = [p \in Procs |-> NoResponse]
    /\ inbox = [p \in Procs |-> NoInbox]
    /\ client = NoCall
    /\ BotAtRest

(***************************************************************************)
(* create_review (POST /reviews/)                                          *)
(***************************************************************************)
create_review ==
    /\ nextId <= MaxReviews
    /\ db' = db @@ (nextId :> Row(None))
    /\ nextId' = nextId + 1
    /\ UNCHANGED <<fs, issued, pc, req, resp, inbox, client, limiter, clock, calls, bot>>

(***************************************************************************)
(* upload_review_image (POST /reviews/{review_id}/image)                   *)
(***************************************************************************)
\* variant: the body is saved under its name before it is validated
UploadBegin_SaveFirst(p, review_id, content_type, content, filename) ==
    /\ pc[p] = "idle"
    /\ LET rejection ==
               UploadRejection(review_id \in DOMAIN db, content_type, content)
       IN  /\ rejection # NoResponse
           /\ resp' = [resp EXCEPT ![p] = rejection]
           /\ pc' = [pc EXCEPT ![p] = "done"]
           /\ req' = [req EXCEPT ![p] =
                         [NoReq EXCEPT !.op = "upload", !.rid = review_id]]
           /\ fs' = IF rejection.status = 400
                    THEN (review_id :> write_bytes(
                              IF review_id \in DOMAIN fs THEN fs[review_id]
                              ELSE EmptyDir,
                              "upload" \o _get_safe_extension(filename),
                              content)) @@ fs
                    ELSE fs
    /\ UNCHANGED <<db, nextId, issued>>

\* db.get, the three checks, the safe file name (lines 160-190)
UploadBegin(p, review_id, content_type, content, filename) ==
    /\ pc[p] = "idle"
    /\ LET rejection ==
               UploadRejection(review_id \in DOMAIN db, content_type, content)
       IN  IF rejection # NoResponse
           THEN /\ resp' = [resp EXCEPT ![p] = rejection]
                /\ pc' = [pc EXCEPT ![p] = "done"]
                /\ req' = [req EXCEPT ![p] =
                              [NoReq EXCEPT !.op = "upload", !.rid = review_id]]
                /\ UNCHANGED issued
           ELSE \E token \in uuid4(issued) :
                /\ issued' = issued \cup {token}
                /\ req' = [req EXCEPT ![p] =
                              [NoReq EXCEPT
                                 !.op = "upload", !.rid = review_id,
                                 !.content = content,
                                 !.name = token \o _get_safe_extension(filename)]]
                /\ pc' = [pc EXCEPT ![p] = "mkdir"]
                /\ UNCHANGED resp
    /\ UNCHANGED <<db, nextId, fs>>

\* a worker takes an upload request off the wire
UploadRequest(p) ==
    /\ \E review_id \in ReviewIds, content_type \in ReqContentTypes,
          content \in ReqPayloads, filename \in ReqFilenames :
          UploadBegin(p, review_id, content_type, content, filename)
    /\ UNCHANGED <<inbox, client, limiter, clock, calls, bot>>

\* review_uploads_dir.mkdir(parents=True, exist_ok=True) (line 194)
UploadMkdir(p) ==
    /\ pc[p] = "mkdir"
    /\ fs' = IF req[p].rid \in DOMAIN fs THEN fs
             ELSE fs @@ (req[p].rid :> EmptyDir)
    /\ pc' = [pc EXCEPT ![p] = "write"]
    /\ UNCHANGED <<db, nextId, issued, req, resp, inbox, client, limiter, clock, calls, bot>>

\* variant: the write looks the record up again and gives up without it
UploadWrite_ChecksRecord(p) ==
    /\ pc[p] = "write"
    /\ IF req[p].rid \in DOMAIN fs /\ req[p].rid \in DOMAIN db
       THEN /\ fs' = [fs EXCEPT ![req[p].rid] =
                        write_bytes(@, req[p].name, req[p].content)]
            /\ pc' = [pc EXCEPT ![p] = "commit"]
            /\ UNCHANGED <<req, resp>>
       ELSE /\ pc' = [pc EXCEPT ![p] = "done"]
            /\ resp' = [resp EXCEPT ![p] = Response(500, "Internal Server Error")]
            /\ req' = [req EXCEPT ![p].err = "write"]
            /\ UNCHANGED fs
    /\ UNCHANGED <<db, nextId, issued, inbox, client, limiter, clock, calls, bot>>

\* file_path.write_bytes(content) (line 197); FileNotFoundError when the
\* directory was removed since the mkdir
UploadWrite(p) ==
    /\ pc[p] = "write"
    /\ IF req[p].rid \in DOMAIN fs
       THEN /\ fs' = [fs EXCEPT ![req[p].rid] =
                        write_bytes(@, req[p].name, req[p].content)]
            /\ pc' = [pc EXCEPT ![p] = "commit"]
            /\ UNCHANGED <<req, resp>>
       ELSE /\ pc' = [pc EXCEPT ![p] = "done"]
            /\ resp' = [resp EXCEPT ![p] = Response(500, "Internal Server Error")]
            /\ req' = [req EXCEPT ![p].err = "write"]
            /\ UNCHANGED fs
    /\ UNCHANGED <<db, nextId, issued, inbox, client, limiter, clock, calls, bot>>

\* review.image_path = relative_path; db.commit() (lines 200-205).  The
\* UPDATE of a row that was deleted meanwhile matches no row (StaleDataError).
UploadCommit(p) ==
    /\ pc[p] = "commit"
    /\ req[p].op = "upload"
    /\ pc' = [pc EXCEPT ![p] = "done"]
    /\ \/ /\ req[p].rid \in DOMAIN db
          /\ db' = [db EXCEPT ![req[p].rid].image_path =
                        relative_path(req[p].rid, req[p].name)]
          /\ resp' = [resp EXCEPT ![p] =
                          Returns(200, req[p].rid, db'[req[p].rid])]
          /\ UNCHANGED req
       \/ /\ req[p].rid \notin DOMAIN db
          /\ resp' = [resp EXCEPT ![p] = Response(500, "Internal Server Error")]
          /\ req' = [req EXCEPT ![p].err = "stale"]
          /\ UNCHANGED db
       \/ /\ req[p].rid \in DOMAIN db
          /\ resp' = [resp EXCEPT ![p] = Response(500, "Internal Server Error")]
          /\ req' = [req EXCEPT ![p].err = "commit"]
          /\ UNCHANGED db
    /\ UNCHANGED <<nextId, fs, issued, inbox, client, limiter, clock, calls, bot>>

(***************************************************************************)
(* delete_review (DELETE /reviews/{review_id})                             *)
(***************************************************************************)
\* db.get and the test of review.image_path (lines 116-123)
\* variant: the purge runs whether or not image_path is set
DeleteBegin_AlwaysPurges(p) ==
    /\ pc[p] = "idle"
    /\ \E review_id \in ReviewIds :
          IF review_id \notin DOMAIN db
          THEN /\ resp' = [resp EXCEPT ![p] = Response(404, "Review not found")]
               /\ pc' = [pc EXCEPT ![p] = "done"]
               /\ req' = [req EXCEPT ![p] =
                             [NoReq EXCEPT !.op = "delete", !.rid = review_id]]
          ELSE /\ req' = [req EXCEPT ![p] =
                             [NoReq EXCEPT
                                !.op = "delete", !.rid = review_id,
                                !.purge = "pending"]]
               /\ pc' = [pc EXCEPT ![p] = "purge"]
               /\ UNCHANGED resp
    /\ UNCHANGED <<db, nextId, fs, issued, inbox, client, limiter, clock, calls, bot>>

DeleteBegin(p) ==
    /\ pc[p] = "idle"
    /\ \E review_id \in ReviewIds :
          IF review_id \notin DOMAIN db
          THEN /\ resp' = [resp EXCEPT ![p] = Response(404, "Review not found")]
               /\ pc' = [pc EXCEPT ![p] = "done"]
               /\ req' = [req EXCEPT ![p] =
                             [NoReq EXCEPT !.op = "delete", !.rid = review_id]]
          ELSE /\ req' = [req EXCEPT ![p] =
                             [NoReq EXCEPT
                                !.op = "delete", !.rid = review_id,
                                !.purge = IF Truthy(db[review_id].image_path)
                                          THEN "pending" ELSE "skipped"]]
               /\ pc' = [pc EXCEPT ![p] =
                            IF Truthy(db[review_id].image_path)
                            THEN "purge" ELSE "commit"]
               /\ UNCHANGED resp
    /\ UNCHANGED <<db, nextId, fs, issued, inbox, client, limiter, clock, calls, bot>>

\* variant: only the files are removed, the directory stays
DeletePurge_FilesOnly(p) ==
    /\ pc[p] = "purge"
    /\ pc' = [pc EXCEPT ![p] = "commit"]
    /\ \/ /\ req[p].rid \notin DOMAIN fs
          /\ req' = [req EXCEPT ![p].purge = "absent"]
          /\ UNCHANGED fs
       \/ /\ req[p].rid \in DOMAIN fs
          /\ fs' = [fs EXCEPT ![req[p].rid] = EmptyDir]
          /\ req' = [req EXCEPT ![p].purge = "removed"]
    /\ UNCHANGED <<db, nextId, issued, resp, inbox, client, limiter, clock, calls, bot>>

\* variant: the OSError of rmtree is not caught
DeletePurge_Raises(p) ==
    /\ pc[p] = "purge"
    /\ \/ /\ req[p].rid \notin DOMAIN fs
          /\ req' = [req EXCEPT ![p].purge = "absent"]
          /\ pc' = [pc EXCEPT ![p] = "commit"]
          /\ UNCHANGED <<fs, resp>>
       \/ /\ req[p].rid \in DOMAIN fs
          /\ fs' = RemoveKey(fs, req[p].rid)
          /\ req' = [req EXCEPT ![p].purge = "removed"]
          /\ pc' = [pc EXCEPT ![p] = "commit"]
          /\ UNCHANGED resp
       \/ /\ req[p].rid \in DOMAIN fs
          /\ \E left \in SUBSET DOMAIN fs[req[p].rid] :
                fs' = [fs EXCEPT ![req[p].rid] = Restrict(@, left)]
          /\ req' = [req EXCEPT ![p].purge = "failed"]
          /\ pc' = [pc EXCEPT ![p] = "done"]
          /\ resp' = [resp EXCEPT ![p] = Response(500, "Internal Server Error")]
    /\ UNCHANGED <<db, nextId, issued, inbox, client, limiter, clock, calls, bot>>

\* variant: rmtree without the exists() test, its error not caught
DeletePurge_NoExistsTest(p) ==
    /\ pc[p] = "purge"
    /\ \/ /\ req[p].rid \notin DOMAIN fs
          /\ req' = [req EXCEPT ![p].purge = "failed"]
          /\ pc' = [pc EXCEPT ![p] = "done"]
          /\ resp' = [resp EXCEPT ![p] = Response(500, "Internal Server Error")]
          /\ UNCHANGED fs
       \/ /\ req[p].rid \in DOMAIN fs
          /\ fs' = RemoveKey(fs, req[p].rid)
          /\ req' = [req EXCEPT ![p].purge = "removed"]
          /\ pc' = [pc EXCEPT ![p] = "commit"]
          /\ UNCHANGED resp
       \/ /\ req[p].rid \in DOMAIN fs
          /\ \E left \in SUBSET DOMAIN fs[req[p].rid] :
                fs' = [fs EXCEPT ![req[p].rid] = Restrict(@, left)]
          /\ req' = [req EXCEPT ![p].purge = "failed"]
          /\ pc' = [pc EXCEPT ![p] = "commit"]
          /\ UNCHANGED resp
    /\ UNCHANGED <<db, nextId, issued, inbox, client, limiter, clock, calls, bot>>

\* review_uploads_dir.exists() and shutil.rmtree (lines 124-131); an OSError
\* leaves the directory with whatever rmtree had not removed yet
DeletePurge(p) ==
    /\ pc[p] = "purge"
    /\ pc' = [pc EXCEPT ![p] = "commit"]
    /\ \/ /\ req[p].rid \notin DOMAIN fs
          /\ req' = [req EXCEPT ![p].purge = "absent"]
          /\ UNCHANGED fs
       \/ /\ req[p].rid \in DOMAIN fs
          /\ fs' = RemoveKey(fs, req[p].rid)
          /\ req' = [req EXCEPT ![p].purge = "removed"]
       \/ /\ req[p].rid \in DOMAIN fs
          /\ \E left \in SUBSET DOMAIN fs[req[p].rid] :
                fs' = [fs EXCEPT ![req[p].rid] = Restrict(@, left)]
          /\ req' = [req EXCEPT ![p].purge = "failed"]
    /\ UNCHANGED <<db, nextId, issued, resp, inbox, client, limiter, clock, calls, bot>>

\* db.delete(review); db.commit() (lines 133-134).  A DELETE of a row that a
\* concurrent delete removed first matches no row and still commits.
DeleteCommit(p) ==
    /\ pc[p] = "commit"
    /\ req[p].op = "delete"
    /\ pc' = [pc EXCEPT ![p] = "done"]
    /\ \/ /\ db' = RemoveKey(db, req[p].rid)
          /\ resp' = [resp EXCEPT ![p] = Response(204, "")]
          /\ UNCHANGED req
       \/ /\ resp' = [resp EXCEPT ![p] = Response(500, "Internal Server Error")]
          /\ req' = [req EXCEPT ![p].err = "commit"]
          /\ UNCHANGED db
    /\ UNCHANGED <<nextId, fs, issued, inbox, client, limiter, clock, calls, bot>>

\* the response is sent and the worker is free again
Close(p) ==
    /\ pc[p] = "done"
    /\ pc' = [pc EXCEPT ![p] = "idle"]
    /\ req' = [req EXCEPT ![p] = NoReq]
    /\ resp' = [resp EXCEPT ![p] = NoResponse]
    /\ UNCHANGED <<db, nextId, fs, issued, inbox, client, limiter, clock, calls, bot>>

Next ==
    \/ create_review
    \/ \E p \in Procs :
          \/ UploadRequest(p)
          \/ UploadMkdir(p)
          \/ UploadWrite(p)
          \/ UploadCommit(p)
          \/ DeleteBegin(p)
          \/ DeletePurge(p)
          \/ DeleteCommit(p)
          \/ Close(p)

Spec == Init /\ [][Next]_vars

(***************************************************************************)
(* Two workers on a review that already has an image from an earlier       *)
(* upload                                                                  *)
(***************************************************************************)
\* the file of the earlier upload; its name is not drawn again
EARLIER_FILE == "9f.jpg"

InitRace ==
    /\ db = (1 :> Row(relative_path(1, EARLIER_FILE)))
    /\ nextId = 2
    /\ fs = (1 :> (EARLIER_FILE :> JPEG_SMALL))
    /\ issued = {}
    /\ pc = [p \in Procs |-> "idle"]
    /\ req = [p \in Procs |-> NoReq]
    /\ resp = [p \in Procs |-> NoResponse]
    /\ inbox = [p \in Procs |-> NoInbox]
    /\ client = NoCall
    /\ BotAtRest

NextRace ==
    \E p \in Procs :
        \/ UploadRequest(p)
        \/ UploadMkdir(p)
        \/ UploadWrite(p)
        \/ UploadCommit(p)
        \/ DeleteBegin(p)
        \/ DeletePurge(p)
        \/ DeleteCommit(p)
        \/ Close(p)

SpecRace == InitRace /\ [][NextRace]_vars

(***************************************************************************)
(* One worker alone: the requests run one after the other                  *)
(***************************************************************************)
NextSeq ==
    \/ create_review
    \/ UploadRequest("w1")
    \/ UploadMkdir("w1")
    \/ UploadWrite("w1")
    \/ UploadCommit("w1")
    \/ DeleteBegin("w1")
    \/ DeletePurge("w1")
    \/ DeleteCommit("w1")
    \/ Close("w1")

SpecSeq == Init /\ [][NextSeq]_vars

(***************************************************************************)
(* get_review (GET /reviews/{review_id})                                   *)
(***************************************************************************)
get_review(p) ==
    /\ pc[p] = "idle"
    /\ \E review_id \in ReviewIds :
          /\ req' = [req EXCEPT ![p] =
                        [NoReq EXCEPT !.op = "get", !.rid = review_id]]
          /\ resp' = [resp EXCEPT ![p] =
                         IF review_id \in DOMAIN db
                         THEN Returns(200, review_id, db[review_id])
                         ELSE Response(404, "Review not found")]
    /\ pc' = [pc EXCEPT ![p] = "done"]
    /\ UNCHANGED <<db, nextId, fs, issued, inbox, client, limiter, clock, calls, bot>>

(***************************************************************************)
(* create_review and update_review with their request bodies               *)
(***************************************************************************)
RATING_TOO_SMALL == "Input should be greater than or equal to 1"
RATING_TOO_LARGE == "Input should be less than or equal to 10"

\* variant: ge=0
rating_violation_ZeroAllowed(rating) ==
    IF rating < 0 THEN RATING_TOO_SMALL
    ELSE IF rating > 10 THEN RATING_TOO_LARGE
    ELSE ""

\* Field(ge=1, le=10): the message of the constraint an int violates
rating_violation(rating) ==
    IF rating < 1 THEN RATING_TOO_SMALL
    ELSE IF rating > 10 THEN RATING_TOO_LARGE
    ELSE ""

\* Validation of a body as ReviewCreate: the 422 of the first error, or
\* NoResponse.  rating and text are required and not nullable.
ReviewCreate(data) ==
    IF "rating" \notin data.fields THEN Response(422, "Field required")
    ELSE IF "rating" \in data.nulls
         THEN Response(422, "Input should be a valid integer")
    ELSE IF rating_violation(data.rating) # ""
         THEN Response(422, rating_violation(data.rating))
    ELSE IF "text" \notin data.fields THEN Response(422, "Field required")
    ELSE IF "text" \in data.nulls
         THEN Response(422, "Input should be a valid string")
    ELSE NoResponse

\* Validation of a body as ReviewUpdate: every field is optional and
\* nullable, a rating that is given has to be in range.
ReviewUpdate(data) ==
    IF "rating" \in data.fields \ data.nulls
          /\ rating_violation(data.rating) # ""
    THEN Response(422, rating_violation(data.rating))
    ELSE NoResponse

\* columns declared nullable=False among those a body can set
NotNullColumns == {"rating", "text"}

\* for field, value in data.model_dump(exclude_unset=True).items():
\*     setattr(review, field, value)
\* The dump holds the fields of ReviewUpdate that the body has set; a key
\* of the body that ReviewUpdate does not declare (image_path,
\* author_telegram_id) is ignored by the validation and is not in it.
setattrs(review, data) ==
    [review EXCEPT
       !.rating = IF "rating" \in data.fields THEN data.rating ELSE @,
       !.text = IF "text" \in data.fields THEN data.text ELSE @]

CreateBodies ==
    {ReviewData({"rating", "text"}
                    \cup (IF tid = None THEN {} ELSE {"author_telegram_id"}),
                {}, tid, rating, "Great movie!") :
        tid \in {None, "42", "7712027002"}, rating \in {0, 1, 10, 11}}
        \cup {ReviewData({"text"}, {}, None, 0, "Great movie!")}

PatchBodies ==
    {ReviewData(fields, {}, None,
                IF "rating" \in fields THEN rating ELSE 0,
                IF "text" \in fields THEN "Updated text" ELSE "") :
        fields \in SUBSET {"rating", "text"}, rating \in {0, 1, 10, 11}}
        \cup {ReviewData(nulls, nulls, None, 0, "") :
                 nulls \in {{"rating"}, {"text"}, {"image_path"}}}

\* POST /reviews/ by a worker (lines 36-51); db.commit() can fail
CreateRequest(p) ==
    /\ pc[p] = "idle"
    /\ pc' = [pc EXCEPT ![p] = "done"]
    /\ \E data \in CreateBodies :
          LET created == [NoReq EXCEPT !.op = "create", !.data = data]
          IN  IF ReviewCreate(data) # NoResponse
              THEN /\ resp' = [resp EXCEPT ![p] = ReviewCreate(data)]
                   /\ req' = [req EXCEPT ![p] = created]
                   /\ UNCHANGED <<db, nextId>>
              ELSE /\ nextId <= MaxReviews
                   /\ \/ /\ db' = db @@ (nextId :> NewReview(data))
                         /\ nextId' = nextId + 1
                         /\ resp' = [resp EXCEPT ![p] =
                                        Returns(201, nextId, db'[nextId])]
                         /\ req' = [req EXCEPT ![p] =
                                       [created EXCEPT !.rid = nextId]]
                      \/ /\ resp' = [resp EXCEPT ![p] =
                                        Response(500, "Internal Server Error")]
                         /\ req' = [req EXCEPT ![p] =
                                       [created EXCEPT !.err = "commit"]]
                         /\ UNCHANGED <<db, nextId>>
    /\ UNCHANGED <<fs, issued, inbox, client, limiter, clock, calls, bot>>

\* PATCH /reviews/{review_id} (lines 95-110).  The body is validated before
\* the handler runs; a null written to a NOT NULL column makes the commit
\* raise IntegrityError, and the commit can fail for other reasons.
update_review_with(p, review_id, data) ==
    /\ pc[p] = "idle"
    /\ pc' = [pc EXCEPT ![p] = "done"]
    /\ LET update == [NoReq EXCEPT !.op = "update", !.rid = review_id,
                                  !.data = data]
           fails(err) ==
               /\ resp' = [resp EXCEPT ![p] =
                              Response(500, "Internal Server Error")]
               /\ req' = [req EXCEPT ![p] = [update EXCEPT !.err = err]]
               /\ UNCHANGED db
       IN  IF ReviewUpdate(data) # NoResponse
           THEN /\ resp' = [resp EXCEPT ![p] = ReviewUpdate(data)]
                /\ req' = [req EXCEPT ![p] = update]
                /\ UNCHANGED db
           ELSE IF review_id \notin DOMAIN db
           THEN /\ resp' = [resp EXCEPT ![p] =
                               Response(404, "Review not found")]
                /\ req' = [req EXCEPT ![p] = update]
                /\ UNCHANGED db
           ELSE IF data.nulls \cap NotNullColumns # {}
           THEN fails("integrity")
           ELSE \/ /\ db' = [db EXCEPT ![review_id] = setattrs(@, data)]
                   /\ resp' = [resp EXCEPT ![p] =
                                  Returns(200, review_id, db'[review_id])]
                   /\ req' = [req EXCEPT ![p] = update]
                \/ fails("commit")
    /\ UNCHANGED <<nextId, fs, issued, inbox>>

\* a PATCH request with any of the bodies of PatchBodies
update_review(p) ==
    /\ \E review_id \in ReviewIds, data \in PatchBodies :
          update_review_with(p, review_id, data)
    /\ UNCHANGED <<client, limiter, clock, calls, bot>>

\* the database and the upload directory when a request arrives: nothing
\* stored, a review without image, a review with an image, and the files a
\* failed purge left behind a deleted review
Worlds ==
    LET file == "0a.jpg"
        dir == (1 :> (file :> JPEG_SMALL))
        empty == [i \in {} |-> EmptyDir]
    IN  {[db |-> [i \in {} |-> Row(None)], nextId |-> 1, fs |-> empty,
          issued |-> {}],
         [db |-> (1 :> Row(None)), nextId |-> 2, fs |-> empty, issued |-> {}],
         [db |-> (1 :> Row(relative_path(1, file))), nextId |-> 2, fs |-> dir,
          issued |-> {"0a"}],
         [db |-> [i \in {} |-> Row(None)], nextId |-> 2, fs |-> dir,
          issued |-> {"0a"}]}

\* one client creating, updating and reading reviews
NextCrud ==
    \/ CreateRequest("w1")
    \/ update_review("w1")
    \/ get_review("w1")
    \/ Close("w1")

\* the client finds the server in any of the worlds
InitCrud ==
    /\ \E w \in Worlds :
          /\ db = w.db
          /\ nextId = w.nextId
          /\ fs = w.fs
          /\ issued = w.issued
    /\ pc = [p \in Procs |-> "idle"]
    /\ req = [p \in Procs |-> NoReq]
    /\ resp = [p \in Procs |-> NoResponse]
    /\ inbox = [p \in Procs |-> NoInbox]
    /\ client = NoCall
    /\ BotAtRest

SpecCrud == InitCrud /\ [][NextCrud]_vars

(***************************************************************************)
(* A client that uploads and deletes while a second one reads              *)
(***************************************************************************)
NextRead ==
    \/ create_review
    \/ UploadRequest("w1")
    \/ UploadMkdir("w1")
    \/ UploadWrite("w1")
    \/ UploadCommit("w1")
    \/ DeleteBegin("w1")
    \/ DeletePurge("w1")
    \/ DeleteCommit("w1")
    \/ \E p \in Procs : get_review(p) \/ Close(p)

SpecRead == Init /\ [][NextRead]_vars

(***************************************************************************)
(* One received upload request, over every declared type, payload and file *)
(* name of the tables below, handled in each of the worlds a server can be *)
(* in when the request arrives                                             *)
(***************************************************************************)
MAX_PLUS_ONE == Payload(<<255, 216, 255, 224, 0, 16, 74, 70, 73, 70>>,
                        MAX_IMAGE_SIZE + 1)
AT_MAX(head) == Payload(head, MAX_IMAGE_SIZE)

InboxContentTypes ==
    {None, "", "image/jpeg", "image/png", "image/", "image", "text/plain",
     "Image/png", "application/image/png"}

InboxPayloads ==
    {NoContent,
     Payload(<<255>>, 1), Payload(<<255, 216>>, 2),
     Payload(SIG_JPEG, 3), JPEG_SMALL, JPEG_OVERSIZE, MAX_PLUS_ONE,
     AT_MAX(<<255, 216, 255, 224, 0, 16, 74, 70, 73, 70>>),
     Payload(<<0, 255, 216, 255>>, 4),
     PNG_SMALL, Payload(<<137, 80, 78, 71, 13, 10, 26>>, 7),
     Payload(<<137, 80, 78, 71, 13, 10, 26, 11>>, 8),
     Payload(SIG_GIF87a, 6), Payload(SIG_GIF89a, 6),
     Payload(<<71, 73, 70, 56, 56, 97>>, 6), Payload(<<71, 73, 70, 56>>, 4),
     Payload(SIG_RIFF, 4), Payload(<<82, 73, 70>>, 3),
     Payload(<<82, 73, 70, 88, 0, 0>>, 6),
     Payload(<<82, 73, 70, 70, 36, 0, 0, 0, 87, 65>>, 44),
     TEXT_SMALL,
     AT_MAX(<<110, 111, 116, 32, 97, 32, 114, 101, 97, 108>>),
     Payload(<<110, 111, 116, 32, 97, 32, 114, 101, 97, 108>>,
             MAX_IMAGE_SIZE + 1)}

InboxFilenames ==
    {None, "", "photo.PNG", "noext", "archive.tar.gz", "x.", ".", ".gif",
     "a.b.JPEG", "evil.png.exe", "pic.webp", "file.Jpg", "png", "shot.pNg",
     "a.png.", "clip.WEBP.gif"}

InitUpload ==
    /\ \E w \in Worlds :
          /\ db = w.db
          /\ nextId = w.nextId
          /\ fs = w.fs
          /\ issued = w.issued
    /\ pc = [p \in Procs |-> "idle"]
    /\ req = [p \in Procs |-> NoReq]
    /\ resp = [p \in Procs |-> NoResponse]
    /\ client = NoCall
    /\ BotAtRest
    /\ \E review_id \in ReviewIds, content_type \in InboxContentTypes,
          content \in InboxPayloads, filename \in InboxFilenames :
          inbox = [p \in Procs |->
                     IF p = "w1"
                     THEN [rid |-> review_id, content_type |-> content_type,
                           content |-> content, filename |-> filename]
                     ELSE NoInbox]

\* the worker handles the request it has received
UploadFromInbox(p) ==
    /\ inbox[p] # NoInbox
    /\ UploadBegin(p, inbox[p].rid, inbox[p].content_type, inbox[p].content,
                   inbox[p].filename)
    /\ UNCHANGED <<inbox, client, limiter, clock, calls, bot>>

NextUpload ==
    \/ UploadFromInbox("w1")
    \/ UploadMkdir("w1")
    \/ UploadWrite("w1")
    \/ UploadCommit("w1")

SpecUpload == InitUpload /\ [][NextUpload]_vars

(***************************************************************************)
(* The client of the bot: _make_request, _handle_response, _extract_detail *)
(***************************************************************************)
\* the result of evaluating an expression: a value, or an exception raised
Value(v) == [raised |-> "", value |-> v]
Raise(exc) == [raised |-> exc, value |-> JNull]

\* except (ValueError, KeyError)
Caught == {"ValueError", "KeyError"}

\* data = response.json(); data.get("detail", default).  An undecodable
\* body raises JSONDecodeError, a ValueError; any decoded value that is not
\* a dict has no attribute get.
json_detail(response, default) ==
    IF ~response.body.json THEN Raise("ValueError")
    ELSE IF response.body.t # "dict" THEN Raise("AttributeError")
    ELSE IF response.body.has_detail THEN Value(response.body.detail)
    ELSE Value(default)

_extract_detail(response) ==
    LET detail == json_detail(response, JStr("Unknown error"))
    IN  IF detail.raised \in Caught THEN Value(JStr("Unknown error"))
        ELSE detail

\* err.get('loc', ['?'])[-1]
LastOf(loc) ==
    IF loc.t = "missing" THEN Value(JStr("?"))
    ELSE IF loc.t \in {"list", "str"}
         THEN IF Len(loc.items) = 0 THEN Raise("IndexError")
              ELSE Value(JStr(loc.items[Len(loc.items)]))
    ELSE IF loc.t = "dict" THEN Raise("KeyError")
    ELSE Raise("TypeError")

\* f"{err.get('loc', ['?'])[-1]}: {err.get('msg', 'error')}"
FormatError(err) ==
    IF err.t # "dict" THEN Raise("AttributeError")
    ELSE LET last == LastOf(err.loc)
         IN  IF last.raised # "" THEN last
             ELSE Value(JStr(last.value.s \o ": "
                             \o (IF err.msg.has THEN err.msg.s ELSE "error")))

\* the 422 branch of _handle_response (lines 77-89)
ValidationFailure(response) ==
    LET details == json_detail(response, JList(<<>>))
        formatted == [i \in 1..Len(details.value.errs) |->
                         FormatError(details.value.errs[i])]
        failed == {i \in DOMAIN formatted : formatted[i].raised # ""}
        first == CHOOSE i \in failed : \A k \in failed : i <= k
        raised == IF details.raised # "" THEN details.raised
                  ELSE IF details.value.t = "list" /\ failed # {}
                       THEN formatted[first].raised
                  ELSE ""
    IN  IF raised \in Caught
        THEN ApiValidationError(JStr("Validation error"), <<>>)
        ELSE IF raised # "" THEN Propagates(raised)
        ELSE IF details.value.t = "list"
             THEN ApiValidationError(JStr("Validation error"),
                      [i \in DOMAIN formatted |-> formatted[i].value.s])
        ELSE ApiValidationError(JStr(details.value.s), <<>>)

\* variant: without the branch for the statuses from 500 on
_handle_response_No5xx(response) ==
    LET detail == _extract_detail(response)
    IN  IF response.status_code = 404
        THEN IF detail.raised # "" THEN Propagates(detail.raised)
             ELSE ApiNotFound(detail.value)
        ELSE IF response.status_code = 422 THEN ValidationFailure(response)
        ELSE IF response.status_code = 400
             THEN IF detail.raised # "" THEN Propagates(detail.raised)
                  ELSE ApiBadRequest(detail.value)
        ELSE Return(response)

_handle_response(response) ==
    LET detail == _extract_detail(response)
    IN  IF response.status_code = 404
        THEN IF detail.raised # "" THEN Propagates(detail.raised)
             ELSE ApiNotFound(detail.value)
        ELSE IF response.status_code = 422 THEN ValidationFailure(response)
        ELSE IF response.status_code = 400
             THEN IF detail.raised # "" THEN Propagates(detail.raised)
                  ELSE ApiBadRequest(detail.value)
        ELSE IF response.status_code >= 500
             THEN ApiUnavailable(JStr("Server error: "
                                      \o ToString(response.status_code)))
        ELSE Return(response)

\* the exception classes of httpx, each with its base class
httpx_bases ==
    [class \in {"ConnectTimeout", "ReadTimeout", "WriteTimeout", "PoolTimeout",
                "TimeoutException", "ConnectError", "ReadError", "WriteError",
                "CloseError", "NetworkError", "ProxyError",
                "UnsupportedProtocol", "RemoteProtocolError", "TransportError",
                "DecodingError", "TooManyRedirects", "RequestError",
                "InvalidURL"} |->
        CASE class \in {"ConnectTimeout", "ReadTimeout", "WriteTimeout",
                        "PoolTimeout"} -> "TimeoutException"
          [] class \in {"ConnectError", "ReadError", "WriteError",
                        "CloseError"} -> "NetworkError"
          [] class \in {"TimeoutException", "NetworkError", "ProxyError",
                        "UnsupportedProtocol", "RemoteProtocolError"} ->
                 "TransportError"
          [] class \in {"TransportError", "DecodingError",
                        "TooManyRedirects"} -> "RequestError"
          [] class = "RequestError" -> "HTTPError"
          [] OTHER -> "Exception"]

RECURSIVE issubclass(_, _)
issubclass(class, base) ==
    \/ class = base
    \/ /\ class \in DOMAIN httpx_bases
       /\ issubclass(httpx_bases[class], base)

\* variant: the except clauses with the most general one first
_make_request_RequestErrorFirst(result) ==
    IF result.raised = "" THEN _handle_response(result)
    ELSE IF issubclass(result.raised, "RequestError")
         THEN ApiUnavailable(JStr("Request failed: " \o result.text))
    ELSE IF issubclass(result.raised, "TimeoutException")
         THEN ApiUnavailable(JStr("Request timed out: " \o result.text))
    ELSE IF issubclass(result.raised, "ConnectError")
         THEN ApiUnavailable(JStr("Failed to connect to API: " \o result.text))
    ELSE Propagates(result.raised)

\* _make_request on what client.request gave: the first except clause that
\* matches the raised exception, or _handle_response on the response
_make_request(result) ==
    IF result.raised = "" THEN _handle_response(result)
    ELSE IF issubclass(result.raised, "TimeoutException")
         THEN ApiUnavailable(JStr("Request timed out: " \o result.text))
    ELSE IF issubclass(result.raised, "ConnectError")
         THEN ApiUnavailable(JStr("Failed to connect to API: " \o result.text))
    ELSE IF issubclass(result.raised, "RequestError")
         THEN ApiUnavailable(JStr("Request failed: " \o result.text))
    ELSE Propagates(result.raised)

(***************************************************************************)
(* One request of the client, over what client.request can give it         *)
(***************************************************************************)
\* the responses the handlers of the review API end with
ServerResponses ==
    {Returns(201, 1, Row(None)),
     Returns(200, 1, Row(relative_path(1, "0a.png"))),
     Response(204, ""),
     Response(404, "Review not found"),
     Response(400, "File must be an image"),
     Response(400, SizeDetail),
     Response(400, "Invalid image file format"),
     Response(422, RATING_TOO_SMALL),
     Response(422, RATING_TOO_LARGE),
     Response(500, "Internal Server Error")}

\* A response of the API as the client receives it.  A review and an
\* HTTPException are JSON objects, the second with the member "detail";
\* a request validation error has a list of errors as its detail; 204 has
\* no body and the 500 of an unhandled exception is plain text.
Wire(r) ==
    HttpResponse(r.status,
        IF r.status \in {200, 201} THEN JsonObjectWithoutDetail
        ELSE IF r.status \in {204, 500} THEN NotJson
        ELSE IF r.status = 422
             THEN JsonObject(JList(<<ErrDict(Loc("list", <<"body", "rating">>),
                                             Msg(r.detail))>>))
        ELSE JsonObject(JStr(r.detail)))

ApiResponses == {Wire(r) : r \in ServerResponses}

StatusCodes ==
    {200, 201, 204, 301, 307, 400, 401, 403, 404, 405, 409, 422, 429, 499,
     500, 502, 503, 599}

RatingError == ErrDict(Loc("list", <<"body", "rating">>), Msg(RATING_TOO_LARGE))

Bodies ==
    {NotJson, JsonObjectWithoutDetail,
     JsonOther("list"), JsonOther("str"), JsonOther("NoneType"),
     JsonOther("int"),
     JsonObject(JStr("Review not found")), JsonObject(JStr("")),
     JsonObject(JNull), JsonObject(JInt("5")), JsonObject(JDict("{'a': 1}")),
     JsonObject(JList(<<>>)),
     JsonObject(JList(<<RatingError>>)),
     JsonObject(JList(<<RatingError,
                        ErrDict(Loc("list", <<"body", "text">>),
                                Msg("Field required"))>>)),
     JsonObject(JList(<<ErrDict(NoLoc, NoMsg)>>)),
     JsonObject(JList(<<ErrDict(Loc("list", <<>>), Msg("x"))>>)),
     JsonObject(JList(<<ErrDict(Loc("NoneType", <<>>), Msg("x"))>>)),
     JsonObject(JList(<<ErrDict(Loc("str", <<"b", "o", "d", "y">>),
                                NoMsg)>>)),
     JsonObject(JList(<<ErrDict(Loc("dict", <<>>), Msg("x"))>>)),
     JsonObject(JList(<<ErrOther("str")>>)),
     JsonObject(JList(<<RatingError, ErrOther("NoneType")>>))}

TransportErrors ==
    {Raised(class, text) :
        class \in DOMAIN httpx_bases,
        text \in {"", "Connection refused"}}

Receivable ==
    ApiResponses \cup TransportErrors
        \cup {HttpResponse(status_code, body) :
                 status_code \in StatusCodes, body \in Bodies}

InitClient ==
    /\ db = [i \in {} |-> Row(None)]
    /\ nextId = 1
    /\ fs = [i \in {} |-> EmptyDir]
    /\ issued = {}
    /\ pc = [p \in Procs |-> "idle"]
    /\ req = [p \in Procs |-> NoReq]
    /\ resp = [p \in Procs |-> NoResponse]
    /\ inbox = [p \in Procs |-> NoInbox]
    /\ \E result \in Receivable :
          client = [received |-> result, outcome |-> NoOutcome]
    /\ BotAtRest

\* response = await client.request(...) has given client.received and
\* _make_request runs to its end
ClientCall ==
    /\ client.outcome = NoOutcome
    /\ client.received # NoResult
    /\ client' = [client EXCEPT !.outcome = _make_request(client.received)]
    /\ UNCHANGED <<db, nextId, fs, issued, pc, req, resp, inbox, limiter,
                   clock, calls, bot>>

SpecClient == InitClient /\ [][ClientCall]_vars

(***************************************************************************)
(* The photo menu of the bot: handle_photo_action, action "delete"         *)
(***************************************************************************)
\* ru.MSG_IMAGE_DELETED, the text shown after the call returned
MSG_IMAGE_DELETED == "MSG_IMAGE_DELETED"

\* bot/utils/formatting.py format_error (the leading sign is left out; no
\* message of the client has a character that escape_html changes)
format_error(message) == "<b>Error:</b> " \o message

\* str(e) of what _make_request raised
str(outcome) ==
    IF outcome.exc \in {"ApiNotFound", "ApiValidationError", "ApiUnavailable",
                        "ApiBadRequest"}
    THEN outcome.message.s
    ELSE outcome.exc

\* payload of client.update_review(review_id, _clear_fields=["image_path"]):
\* {"image_path": null}
clear_image_path == ReviewData({"image_path"}, {"image_path"}, None, 0, "")

\* handle_photo_action with action "delete" (lines 906-912): the client
\* sends PATCH /reviews/{review_id} with the payload above, the API handles
\* it on worker p, and the bot shows MSG_IMAGE_DELETED when update_review
\* of the client returned, the formatted error when it raised.  The request
\* may also fail to reach the API.
handle_photo_action(p) ==
    \E review_id \in ReviewIds :
       \/ /\ update_review_with(p, review_id, clear_image_path)
          /\ client' = [received |-> Wire(resp'[p]),
                        outcome |-> _make_request(Wire(resp'[p]))]
          /\ bot' = Shown("delete", review_id,
                          IF client'.outcome.kind = "return"
                          THEN MSG_IMAGE_DELETED
                          ELSE format_error(str(client'.outcome)))
          /\ UNCHANGED <<limiter, clock, calls>>
       \/ /\ pc[p] = "idle"
          /\ \E result \in {Raised("ConnectError", "Connection refused"),
                             Raised("ReadTimeout", "")} :
                /\ client' = [received |-> result,
                              outcome |-> _make_request(result)]
                /\ bot' = Shown("delete", review_id,
                                format_error(str(client'.outcome)))
          /\ UNCHANGED <<db, nextId, fs, issued, pc, req, resp, inbox,
                         limiter, clock, calls>>

\* the bot's user creates a review, sends a photo for it, opens the review
\* and uses the photo menu
NextBot ==
    \/ create_review
    \/ UploadRequest("w1")
    \/ UploadMkdir("w1")
    \/ UploadWrite("w1")
    \/ UploadCommit("w1")
    \/ handle_photo_action("w1")
    \/ get_review("w1")
    \/ Close("w1")

SpecBot == InitCrud /\ [][NextBot]_vars

(***************************************************************************)
(* The rate limiter of the bot: is_allowed, get_retry_after, cleanup       *)
(***************************************************************************)
MaxRequests == 2
MaxWindow == 2
MaxTime == 2
MaxCalls == 4

UserIds == {1, 2}

\* a call of the limiter: the clock when it began, and what it returned
Call(op, user_id, at, allowed, retry_after, window_start) ==
    [op |-> op, user_id |-> user_id, at |-> at, allowed |-> allowed,
     retry_after |-> retry_after, window_start |-> window_start]

\* self._entries[user_id] = entry
Put(entries, user_id, entry) ==
    [u \in DOMAIN entries \cup {user_id} |->
        IF u = user_id THEN entry ELSE entries[u]]

Max(a, b) == IF a >= b THEN a ELSE b
Min(a, b) == IF a <= b THEN a ELSE b

\* The limiters the bot may be built with, time starting at 0.
InitLimiter ==
    /\ db = [i \in {} |-> Row(None)]
    /\ nextId = 1
    /\ fs = [i \in {} |-> EmptyDir]
    /\ issued = {}
    /\ pc = [p \in Procs |-> "idle"]
    /\ req = [p \in Procs |-> NoReq]
    /\ resp = [p \in Procs |-> NoResponse]
    /\ inbox = [p \in Procs |-> NoInbox]
    /\ client = NoCall
    /\ \E max_requests \in 1..MaxRequests, window_seconds \in 1..MaxWindow :
          limiter = RateLimiter(max_requests, window_seconds)
    /\ clock = 0
    /\ calls = <<>>
    /\ bot = NoShown

\* time passes
Tick ==
    /\ clock < MaxTime
    /\ clock' = clock + 1
    /\ UNCHANGED <<db, nextId, fs, issued, pc, req, resp, inbox, client,
                   limiter, calls, bot>>

\* variant: the limit is reached one request later
is_allowed_OffByOne(user_id) ==
    /\ Len(calls) < MaxCalls
    /\ \E later \in {clock, Min(clock + 1, MaxTime)} :
          LET now == clock
              known == user_id \in DOMAIN limiter.entries
              entry == IF known THEN limiter.entries[user_id]
                       ELSE RateLimitEntry(0, later)
              after ==
                  IF now - entry.window_start >= limiter.window_seconds
                  THEN RateLimitEntry(1, now)
                  ELSE IF entry.count > limiter.max_requests THEN entry
                  ELSE RateLimitEntry(entry.count + 1, entry.window_start)
              allowed ==
                  \/ now - entry.window_start >= limiter.window_seconds
                  \/ ~(entry.count > limiter.max_requests)
          IN  /\ known => later = clock
              /\ clock' = later
              /\ limiter' = [limiter EXCEPT
                                !.entries = Put(@, user_id, after)]
              /\ calls' = Append(calls,
                                 Call("is_allowed", user_id, now, allowed, 0,
                                      after.window_start))
    /\ UNCHANGED <<db, nextId, fs, issued, pc, req, resp, inbox, client, bot>>

\* variant: the window ends only after more than window_seconds
is_allowed_StrictWindow(user_id) ==
    /\ Len(calls) < MaxCalls
    /\ \E later \in {clock, Min(clock + 1, MaxTime)} :
          LET now == clock
              known == user_id \in DOMAIN limiter.entries
              entry == IF known THEN limiter.entries[user_id]
                       ELSE RateLimitEntry(0, later)
              after ==
                  IF now - entry.window_start > limiter.window_seconds
                  THEN RateLimitEntry(1, now)
                  ELSE IF entry.count >= limiter.max_requests THEN entry
                  ELSE RateLimitEntry(entry.count + 1, entry.window_start)
              allowed ==
                  \/ now - entry.window_start > limiter.window_seconds
                  \/ ~(entry.count >= limiter.max_requests)
          IN  /\ known => later = clock
              /\ clock' = later
              /\ limiter' = [limiter EXCEPT
                                !.entries = Put(@, user_id, after)]
              /\ calls' = Append(calls,
                                 Call("is_allowed", user_id, now, allowed, 0,
                                      after.window_start))
    /\ UNCHANGED <<db, nextId, fs, issued, pc, req, resp, inbox, client, bot>>

\* variant: a new window keeps the start of the old one
is_allowed_KeepsWindowStart(user_id) ==
    /\ Len(calls) < MaxCalls
    /\ \E later \in {clock, Min(clock + 1, MaxTime)} :
          LET now == clock
              known == user_id \in DOMAIN limiter.entries
              entry == IF known THEN limiter.entries[user_id]
                       ELSE RateLimitEntry(0, later)
              after ==
                  IF now - entry.window_start >= limiter.window_seconds
                  THEN RateLimitEntry(1, entry.window_start)
                  ELSE IF entry.count >= limiter.max_requests THEN entry
                  ELSE RateLimitEntry(entry.count + 1, entry.window_start)
              allowed ==
                  \/ now - entry.window_start >= limiter.window_seconds
                  \/ ~(entry.count >= limiter.max_requests)
          IN  /\ known => later = clock
              /\ clock' = later
              /\ limiter' = [limiter EXCEPT
                                !.entries = Put(@, user_id, after)]
              /\ calls' = Append(calls,
                                 Call("is_allowed", user_id, now, allowed, 0,
                                      after.window_start))
    /\ UNCHANGED <<db, nextId, fs, issued, pc, req, resp, inbox, client, bot>>

\* RateLimiter.is_allowed (lines 38-62).  now is read first (line 47);
\* self._entries[user_id] (line 48) stores the default entry for a user
\* without one, and the default reads the clock again (line 35), at now or
\* later.  A new window starts at now with count 1 (lines 51-54); at the
\* limit the call returns False (lines 57-58); otherwise it counts (61-62).
is_allowed(user_id) ==
    /\ Len(calls) < MaxCalls
    /\ \E later \in {clock, Min(clock + 1, MaxTime)} :
          LET now == clock
              known == user_id \in DOMAIN limiter.entries
              entry == IF known THEN limiter.entries[user_id]
                       ELSE RateLimitEntry(0, later)
              after ==
                  IF now - entry.window_start >= limiter.window_seconds
                  THEN RateLimitEntry(1, now)
                  ELSE IF entry.count >= limiter.max_requests THEN entry
                  ELSE RateLimitEntry(entry.count + 1, entry.window_start)
              allowed ==
                  \/ now - entry.window_start >= limiter.window_seconds
                  \/ ~(entry.count >= limiter.max_requests)
          IN  /\ known => later = clock
              /\ clock' = later
              /\ limiter' = [limiter EXCEPT
                                !.entries = Put(@, user_id, after)]
              /\ calls' = Append(calls,
                                 Call("is_allowed", user_id, now, allowed, 0,
                                      after.window_start))
    /\ UNCHANGED <<db, nextId, fs, issued, pc, req, resp, inbox, client, bot>>

\* RateLimiter.get_retry_after (lines 64-79): self._entries.get(user_id)
\* stores nothing; 0.0 without an entry, else max(0.0, remaining)
get_retry_after(user_id) ==
    /\ Len(calls) < MaxCalls
    /\ LET known == user_id \in DOMAIN limiter.entries
           elapsed == clock - limiter.entries[user_id].window_start
           remaining == limiter.window_seconds - elapsed
       IN  calls' = Append(calls,
                           IF ~known
                           THEN Call("get_retry_after", user_id, clock,
                                     FALSE, 0, 0)
                           ELSE Call("get_retry_after", user_id, clock,
                                     FALSE, Max(0, remaining),
                                     limiter.entries[user_id].window_start))
    /\ UNCHANGED <<db, nextId, fs, issued, pc, req, resp, inbox, client,
                   limiter, clock, bot>>

\* RateLimiter.cleanup (lines 81-90)
cleanup ==
    /\ LET expired_users ==
               {user_id \in DOMAIN limiter.entries :
                   clock - limiter.entries[user_id].window_start
                       >= limiter.window_seconds * 2}
       IN  limiter' = [limiter EXCEPT
                         !.entries = Restrict(@, DOMAIN @ \ expired_users)]
    /\ UNCHANGED <<db, nextId, fs, issued, pc, req, resp, inbox, client,
                   clock, calls, bot>>

NextLimiter ==
    \/ Tick
    \/ \E user_id \in UserIds : is_allowed(user_id)
    \/ \E user_id \in UserIds : get_retry_after(user_id)
    \/ cleanup

SpecLimiter == InitLimiter /\ [][NextLimiter]_vars

(***************************************************************************)
(* Properties                                                              *)
(***************************************************************************)
IsUpload(p) == req[p].op = "upload"
IsDelete(p) == req[p].op = "delete"

\* the directory of a review exists / holds the file a stored path names
DirExists(review_id) == review_id \in DOMAIN fs

FileExists(review_id, image_path) ==
    /\ DirExists(review_id)
    /\ \E f \in DOMAIN fs[review_id] : relative_path(review_id, f) = image_path

\* C1: a step that ends an upload with a 400 rejection (declared type, size
\* or signature) is the first step of that request and changes neither the
\* upload directory nor any stored row.
C1_RejectedUploadPersistsNothing ==
    [][\A p \in Procs :
          (pc[p] # "done" /\ pc'[p] = "done" /\ req'[p].op = "upload"
              /\ resp'[p].status = 400)
          => (pc[p] = "idle" /\ fs' = fs /\ db' = db)]_vars

\* C1 witness: a signature rejection and a size rejection have been answered
\* for a stored review, and there is no file and no image path.
C1_Witness ==
    /\ pc["w1"] = "done" /\ IsUpload("w1")
    /\ resp["w1"] = Response(400, "Invalid image file format")
    /\ pc["w2"] = "done" /\ IsUpload("w2")
    /\ resp["w2"] = Response(400, SizeDetail)
    /\ req["w1"].rid \in DOMAIN db
    /\ db[req["w1"].rid].image_path = None
    /\ fs = [i \in {} |-> EmptyDir]

C3_PurgeFailureIsSwallowed ==
    \A p \in Procs :
        IsDelete(p) =>
            /\ (req[p].purge = "failed" => pc[p] \in {"commit", "done"})
            /\ (pc[p] = "done" /\ req[p].purge # "none") =>
                  IF req[p].err = "commit"
                  THEN resp[p].status = 500
                  ELSE /\ resp[p].status = 204
                       /\ req[p].rid \notin DOMAIN db

\* C3 witness: the purge failed and left the directory, the row is gone and
\* the answer is 204.
C3_Witness ==
    \E p \in Procs :
        /\ pc[p] = "done" /\ IsDelete(p)
        /\ req[p].purge = "failed"
        /\ resp[p].status = 204
        /\ req[p].rid \notin DOMAIN db
        /\ DirExists(req[p].rid)

\* C4 as stated: no delete request ends with the assets of its review purged
\* and the row of the review still stored.
C4_NoPurgeWithoutDeletion ==
    \A p \in Procs :
        (pc[p] = "done" /\ IsDelete(p) /\ req[p].purge = "removed")
        => req[p].rid \notin DOMAIN db

\* C5 as stated, read between requests: when no request is running, every
\* stored review whose image path is set names a file that exists in the
\* directory of that review.
C5_NoPhantomImagePath ==
    (\A p \in Procs : pc[p] \in {"idle", "done"})
    => \A review_id \in DOMAIN db :
          Truthy(db[review_id].image_path)
          => FileExists(review_id, db[review_id].image_path)

\* an upload that has written its file
Wrote(p) ==
    /\ IsUpload(p)
    /\ req[p].name # ""
    /\ \/ pc[p] = "commit"
       \/ pc[p] = "done" /\ req[p].err # "write"

\* C6: two uploads for the same review that have both written their file
\* wrote files of different names, and a file that is still on disk holds the
\* bytes of the upload that wrote it.
C6_ConcurrentUploadsDistinctFiles ==
    /\ \A p, q \in Procs :
          (p # q /\ Wrote(p) /\ Wrote(q) /\ req[p].rid = req[q].rid)
          => req[p].name # req[q].name
    /\ \A p \in Procs :
          (Wrote(p) /\ DirExists(req[p].rid)
              /\ req[p].name \in DOMAIN fs[req[p].rid])
          => fs[req[p].rid][req[p].name] = req[p].content

\* C6 witness: two uploads of different bytes for one review run at the same
\* time, both have written and neither has committed; both files are on disk.
C6_Witness ==
    /\ pc["w1"] = "commit" /\ pc["w2"] = "commit"
    /\ IsUpload("w1") /\ IsUpload("w2")
    /\ req["w1"].rid = req["w2"].rid
    /\ req["w1"].content # req["w2"].content
    /\ DirExists(req["w1"].rid)
    /\ {req["w1"].name, req["w2"].name} \subseteq DOMAIN fs[req["w1"].rid]
    /\ Cardinality(DOMAIN fs[req["w1"].rid]) = 2

\* C7: the step that takes up an upload for a review identifier without a
\* stored row ends the request with 404 "Review not found" and changes neither
\* the upload directory nor the database, whatever was sent.
C7_UploadToMissingReview ==
    [][\A p \in Procs :
          (pc[p] = "idle" /\ pc'[p] # "idle" /\ req'[p].op = "upload"
              /\ req'[p].rid \notin DOMAIN db)
          => /\ pc'[p] = "done"
             /\ resp'[p] = Response(404, "Review not found")
             /\ fs' = fs
             /\ db' = db]_vars

\* C7 witness: an image of valid type, size and signature sent to a review
\* identifier without a row was answered 404 and nothing is on disk.
C7_Witness ==
    /\ pc["w1"] = "done"
    /\ inbox["w1"].rid \notin DOMAIN db
    /\ inbox["w1"].content_type = "image/jpeg"
    /\ inbox["w1"].content = JPEG_SMALL
    /\ resp["w1"] = Response(404, "Review not found")
    /\ fs = [i \in {} |-> EmptyDir]

\* a received request that has been taken up, for a stored review
Handled(p) ==
    /\ inbox[p] # NoInbox
    /\ pc[p] # "idle"
    /\ inbox[p].rid \in DOMAIN db

DeclaredImage(content_type) ==
    /\ content_type # None
    /\ Len(content_type) >= 6
    /\ SubSeq(content_type, 1, 6) = "image/"

\* C8: for a stored review, an upload whose declared content type is absent
\* or does not start with "image/" has been answered 400 "File must be an
\* image", whatever its bytes.
C8_NonImageTypeRejected ==
    \A p \in Procs :
        (Handled(p) /\ ~DeclaredImage(inbox[p].content_type))
        => /\ pc[p] = "done"
           /\ resp[p] = Response(400, "File must be an image")

\* C8 witness: a payload with a valid JPEG signature declared as text/plain
\* was rejected as not an image.
C8_Witness ==
    /\ Handled("w1")
    /\ inbox["w1"].content_type = "text/plain"
    /\ inbox["w1"].content = JPEG_SMALL
    /\ resp["w1"] = Response(400, "File must be an image")

\* C9: for a stored review and an image/* type, a payload longer than 5 MiB
\* has been answered 400 with the message that names "5MB", and a payload of
\* exactly 5 MiB has not been answered with that message.
C9_SizeCeiling ==
    \A p \in Procs :
        (Handled(p) /\ DeclaredImage(inbox[p].content_type))
        => /\ inbox[p].content.size > 5242880
              => /\ pc[p] = "done"
                 /\ resp[p] = Response(400,
                       "File size exceeds maximum allowed size of 5MB")
           /\ inbox[p].content.size = 5242880
              => resp[p].detail #
                    "File size exceeds maximum allowed size of 5MB"

\* C9 witness: a payload of 5 MiB + 1 byte with a valid signature was rejected
\* with the 5MB message.
C9_Witness ==
    /\ Handled("w1")
    /\ inbox["w1"].content = MAX_PLUS_ONE
    /\ resp["w1"] =
          Response(400, "File size exceeds maximum allowed size of 5MB")

\* the payload starts verbatim with one of the five signatures of the table
StartsWithSignature(content) ==
    \E sig \in {<<255, 216, 255>>, <<137, 80, 78, 71, 13, 10, 26, 10>>,
                <<71, 73, 70, 56, 55, 97>>, <<71, 73, 70, 56, 57, 97>>,
                <<82, 73, 70, 70>>} :
        /\ content.size >= Len(sig)
        /\ Len(content.head) >= Len(sig)
        /\ \A i \in 1..Len(sig) : content.head[i] = sig[i]

\* C10: an upload for a stored review that passed the type and size checks
\* goes on to be saved exactly when its payload starts with a signature of
\* the table, and has otherwise been answered 400 "Invalid image file format".
C10_SignatureDecides ==
    \A p \in Procs :
        (Handled(p) /\ DeclaredImage(inbox[p].content_type)
            /\ inbox[p].content.size <= 5242880)
        => IF StartsWithSignature(inbox[p].content)
           THEN \/ pc[p] \in {"mkdir", "write", "commit"}
                \/ pc[p] = "done" /\ resp[p].status \in {200, 500}
           ELSE /\ pc[p] = "done"
                /\ resp[p] = Response(400, "Invalid image file format")

\* C10 witness: a payload that is only the first two bytes of the JPEG
\* signature was rejected as an invalid image.
C10_Witness ==
    /\ Handled("w1")
    /\ inbox["w1"].content_type = "image/jpeg"
    /\ inbox["w1"].content = Payload(<<255, 216>>, 2)
    /\ resp["w1"] = Response(400, "Invalid image file format")

(***************************************************************************)
(* C11: _get_safe_extension is total over the file names a request can     *)
(* carry (None, empty, no dot, trailing dot, several dots, any letter      *)
(* case): the saved name always ends in one of the five extensions, which  *)
(* is the lower-cased last dot-delimited segment of the file name when     *)
(* that is one of the five, and .jpg otherwise.                            *)
(***************************************************************************)
\* the extension each file name of the table has to get, written out by hand
SafeExtensionOf ==
    [filename \in InboxFilenames |->
        CASE filename \in {"photo.PNG", "shot.pNg"} -> ".png"
          [] filename \in {".gif", "clip.WEBP.gif"} -> ".gif"
          [] filename = "a.b.JPEG" -> ".jpeg"
          [] filename = "pic.webp" -> ".webp"
          [] OTHER -> ".jpg"]

\* what follows the 2-character token in the name a worker saves under
SavedExtension(p) == SubSeq(req[p].name, 3, Len(req[p].name))

C11_SafeExtensionTotal ==
    \A p \in Procs :
        (inbox[p] # NoInbox /\ req[p].name # "") =>
            /\ SavedExtension(p) \in {".jpg", ".jpeg", ".png", ".gif", ".webp"}
            /\ SavedExtension(p) = SafeExtensionOf[inbox[p].filename]

C11_Witness ==
    \E p \in Procs :
        /\ inbox[p] # NoInbox
        /\ inbox[p].filename = "clip.WEBP.gif"
        /\ resp[p].status = 200
        /\ SavedExtension(p) = ".gif"
        /\ FileExists(req[p].rid, db[req[p].rid].image_path)

(***************************************************************************)
(* C12: the image path a successful upload records and returns            *)
(***************************************************************************)
UploadSucceeded(p) ==
    /\ pc[p] = "done"
    /\ IsUpload(p)
    /\ resp[p].status = 200

\* reviews/{review_id}/{token}{extension} for the upload of worker p
PathBelowRoot(p) == "reviews/" \o ToString(req[p].rid) \o "/" \o req[p].name

IsAbsolute(path) == StrStartsWith(path, "/")

ReturnsReview(r) == r.status \in {200, 201}

\* the URL under which a stored path is served
ServedAt(image_path) ==
    IF image_path \in {None, ""} THEN None ELSE "/" \o image_path

C13_ImageUrlFollowsStoredPath ==
    [][\A p \in Procs :
          (resp'[p] # resp[p] /\ ReturnsReview(resp'[p])) =>
              /\ resp'[p].body.id \in DOMAIN db'
              /\ resp'[p].body.image_path = db'[resp'[p].body.id].image_path
              /\ resp'[p].body.image_url = ServedAt(resp'[p].body.image_path)
              /\ \A q \in Procs \ {p} :
                    (UploadSucceeded(q) /\ req'[p].op = "get"
                        /\ req'[p].rid = req[q].rid) =>
                        resp'[p].body.image_url = resp[q].body.image_url]_vars

C13_Witness ==
    \E p, q \in Procs :
        /\ UploadSucceeded(q)
        /\ pc[p] = "done" /\ req[p].op = "get" /\ req[p].rid = req[q].rid
        /\ resp[p].status = 200
        /\ resp[p].body.image_url = "/uploads/reviews/1/0a.png"
        /\ resp[q].body.image_url = "/uploads/reviews/1/0a.png"

(***************************************************************************)
(* C14: deleting a review whose asset directory does not exist changes     *)
(* nothing on the file system at any of its steps; its purge step, when it *)
(* runs, does nothing and raises nothing; and the delete answers 204 with  *)
(* the record removed, unless the database commit itself fails.  (A purge  *)
(* recorded as removed or failed found the directory, so those deletes are *)
(* not among the ones meant.)                                              *)
(***************************************************************************)
C14_DeleteWithoutAssets ==
    [][\A p \in Procs :
          (/\ pc'[p] # pc[p]
           /\ pc[p] # "done"
           /\ req'[p].op = "delete"
           /\ req'[p].rid \in DOMAIN db
           /\ req[p].purge \notin {"removed", "failed"}
           /\ ~DirExists(req'[p].rid)) =>
              /\ fs' = fs
              /\ pc[p] = "idle" => pc'[p] \in {"purge", "commit"}
              /\ pc[p] = "purge" =>
                    /\ pc'[p] = "commit"
                    /\ resp'[p] = NoResponse
                    /\ req'[p].purge = "absent"
              /\ pc[p] = "commit" =>
                    /\ \/ /\ resp'[p].status = 204
                          /\ req'[p].rid \notin DOMAIN db'
                       \/ /\ resp'[p].status = 500
                          /\ req'[p].err = "commit"
                          /\ db' = db]_vars

C14_Witness ==
    \E p \in Procs :
        /\ pc[p] = "done" /\ IsDelete(p) /\ resp[p].status = 204
        /\ req[p].purge = "absent"
        /\ ~DirExists(req[p].rid)
        /\ req[p].rid \notin DOMAIN db

(***************************************************************************)
(* Properties of the client                                                *)
(***************************************************************************)
Called == client.outcome # NoOutcome
GotResponse == Called /\ client.received.raised = ""

RECURSIVE Contains(_, _)
\* sub in s
Contains(s, sub) ==
    /\ Len(s) >= Len(sub)
    /\ \/ SubSeq(s, 1, Len(sub)) = sub
       \/ Contains(SubSeq(s, 2, Len(s)), sub)

Raises(exc) == client.outcome.kind = "raise" /\ client.outcome.exc = exc

\* the detail the server sent, "Unknown error" when the body has none
ServerDetail(body) ==
    IF body.json /\ body.t = "dict" /\ body.has_detail THEN body.detail
    ELSE JStr("Unknown error")

(***************************************************************************)
(* C15: _handle_response maps each status code to the outcome of the       *)
(* table: 404 raises ApiNotFound carrying the server detail (default       *)
(* "Unknown error"), 422 raises ApiValidationError, 400 raises             *)
(* ApiBadRequest carrying the server detail, every status >= 500 raises    *)
(* ApiUnavailable with the numeric status in its message, and every other  *)
(* status returns the response unchanged.                                  *)
(***************************************************************************)
C15_StatusTable ==
    GotResponse =>
        LET status_code == client.received.status_code
            body == client.received.body
        IN  CASE status_code = 404 ->
                     /\ Raises("ApiNotFound")
                     /\ client.outcome.message = ServerDetail(body)
              [] status_code = 422 -> Raises("ApiValidationError")
              [] status_code = 400 ->
                     /\ Raises("ApiBadRequest")
                     /\ client.outcome.message = ServerDetail(body)
              [] status_code >= 500 ->
                     /\ Raises("ApiUnavailable")
                     /\ Contains(client.outcome.message.s,
                                 ToString(status_code))
              [] OTHER -> client.outcome = Return(client.received)

(***************************************************************************)
(* C16: every response the review API gives to a request of the client,    *)
(* with a status that is not 2xx or 3xx, ends the request with one of the  *)
(* four typed failures and is never returned to the caller.                *)
(***************************************************************************)
TypedFailures ==
    {"ApiNotFound", "ApiValidationError", "ApiBadRequest", "ApiUnavailable"}

C17_DetailExtractionNeverThrows ==
    (GotResponse /\ client.received.status_code \in {404, 400, 422}) =>
        /\ client.outcome.exc \in TypedFailures
        /\ client.outcome.status_code = client.received.status_code
        /\ (~client.received.body.json \/ client.received.body.t # "dict") =>
               client.outcome.message \in
                   {JStr("Unknown error"), JStr("Validation error")}

(***************************************************************************)
(* C18: every transport failure of a request (a timeout, a refused         *)
(* connection, any other httpx.RequestError) reaches the caller as         *)
(* ApiUnavailable; the message of a timeout says "timed out" and that of   *)
(* a connection error says "connect".                                      *)
(***************************************************************************)
Timeouts ==
    {"TimeoutException", "ConnectTimeout", "ReadTimeout", "WriteTimeout",
     "PoolTimeout"}

RequestErrors ==
    Timeouts \cup
        {"ConnectError", "ReadError", "WriteError", "CloseError",
         "NetworkError", "ProxyError", "UnsupportedProtocol",
         "RemoteProtocolError", "TransportError", "DecodingError",
         "TooManyRedirects", "RequestError"}

C18_TransportFailuresAreUnavailable ==
    (Called /\ client.received.raised \in RequestErrors) =>
        /\ Raises("ApiUnavailable")
        /\ client.outcome.status_code = 503
        /\ client.received.raised \in Timeouts =>
               Contains(client.outcome.message.s, "timed out")
        /\ client.received.raised = "ConnectError" =>
               Contains(client.outcome.message.s, "connect")

C18_Witness ==
    /\ Called
    /\ client.received = Raised("ConnectTimeout", "")
    /\ client.outcome = ApiUnavailable(JStr("Request timed out: "))

(***************************************************************************)
(* C19: a review created with an author_telegram_id is stored and returned *)
(* with exactly that value, also when the value exceeds the 32-bit signed  *)
(* range (7712027002).                                                     *)
(***************************************************************************)
C19_TelegramIdRoundTrip ==
    \A p \in Procs :
        (pc[p] = "done" /\ req[p].op = "create" /\ resp[p].status = 201) =>
            /\ resp[p].body.author_telegram_id = req[p].data.author_telegram_id
            /\ db[req[p].rid].author_telegram_id =
                   req[p].data.author_telegram_id

(***************************************************************************)
(* C20: after every create or update request each stored review has a      *)
(* rating from 1 to 10; a create or update request whose rating is outside *)
(* that range is answered 422 and changes no stored review.                *)
(***************************************************************************)
C20_RatingInRange ==
    [][/\ \A id \in DOMAIN db' : db'[id].rating \in 1..10
       /\ \A p \in Procs :
             (/\ pc[p] = "idle" /\ pc'[p] = "done"
              /\ req'[p].op \in {"create", "update"}
              /\ "rating" \in req'[p].data.fields \ req'[p].data.nulls
              /\ req'[p].data.rating \notin 1..10) =>
                 /\ resp'[p].status = 422
                 /\ db' = db]_vars

C20_Witness ==
    \E p \in Procs :
        /\ pc[p] = "done" /\ req[p].op = "update"
        /\ req[p].data.rating = 11
        /\ resp[p].status = 422
        /\ req[p].rid \in DOMAIN db
        /\ db[req[p].rid].rating = 10
        /\ db[req[p].rid].text = "Updated text"

(***************************************************************************)
(* C21: a successful PATCH of an existing review changes exactly the       *)
(* fields present in the request body (each takes the value the body       *)
(* gives) and leaves every other field of that review, and every other     *)
(* review, unchanged.                                                      *)
(***************************************************************************)
ReviewColumns == {"author_telegram_id", "rating", "text", "image_path"}

\* the value a body gives to a field it has
Given(data, field) ==
    IF field \in data.nulls THEN None ELSE data[field]

Patched(p) ==
    /\ pc[p] = "idle" /\ pc'[p] = "done"
    /\ req'[p].op = "update"
    /\ resp'[p].status = 200

C21_PatchChangesExactlyGivenFields ==
    [][\A p \in Procs :
          Patched(p) =>
              /\ DOMAIN db' = DOMAIN db
              /\ \A id \in DOMAIN db \ {req'[p].rid} : db'[id] = db[id]
              /\ \A field \in ReviewColumns :
                    db'[req'[p].rid][field] =
                        IF field \in req'[p].data.fields
                        THEN Given(req'[p].data, field)
                        ELSE db[req'[p].rid][field]]_vars

(***************************************************************************)
(* C22: sequential uploads to one review with no delete in between         *)
(***************************************************************************)
FilesOf(files, review_id) ==
    IF review_id \in DOMAIN files THEN DOMAIN files[review_id] ELSE {}

\* worker p completes an upload successfully in this step
UploadCommits(p) ==
    /\ pc[p] = "commit" /\ IsUpload(p)
    /\ pc'[p] = "done" /\ resp'[p].status = 200

\* C22 as stated, at the first successful upload to a review (k = 1; the
\* image_path was never set before): after k successful sequential uploads
\* with no delete in between the directory of the review holds exactly k
\* files and image_path references the file of the most recent upload.
C22_ExactlyOneFilePerSuccessfulUpload ==
    [][\A p \in Procs :
          (UploadCommits(p) /\ db[req[p].rid].image_path = None) =>
              /\ Cardinality(FilesOf(fs', req[p].rid)) = 1
              /\ db'[req[p].rid].image_path
                    = relative_path(req[p].rid, req[p].name)]_vars

\* C22 amended: every upload that reaches its write adds exactly one new
\* file to the directory of the review and removes none, whether or not its
\* commit succeeds afterwards; a successful upload makes image_path
\* reference the file it wrote, which is on disk; and no step other than
\* the purge of a delete removes a file.  So after k successful sequential
\* uploads with no delete in between the directory holds the k files of
\* those uploads, plus one for each upload that failed at its commit.
C22_EachUploadAddsOneFile ==
    [][/\ (\E q \in Procs : pc[q] = "purge" /\ pc'[q] # "purge")
           \/ \A review_id \in DOMAIN fs :
                  FilesOf(fs, review_id) \subseteq FilesOf(fs', review_id)
       /\ \A p \in Procs :
          /\ (pc[p] = "write" /\ pc'[p] = "commit") =>
                /\ req[p].name \notin FilesOf(fs, req[p].rid)
                /\ FilesOf(fs', req[p].rid)
                      = FilesOf(fs, req[p].rid) \cup {req[p].name}
                /\ \A f \in FilesOf(fs, req[p].rid) :
                      fs'[req[p].rid][f] = fs[req[p].rid][f]
          /\ UploadCommits(p) =>
                /\ fs' = fs
                /\ req[p].name \in FilesOf(fs, req[p].rid)
                /\ db'[req[p].rid].image_path
                      = UPLOADS_DIR \o "/reviews/" \o ToString(req[p].rid)
                            \o "/" \o req[p].name]_vars

C22_Witness ==
    \E p \in Procs :
        /\ UploadSucceeded(p)
        /\ req[p].rid = 1
        /\ db[1].image_path = "uploads/reviews/1/1b.png"
        /\ DirExists(1)
        /\ DOMAIN fs[1] = {"0a.png", "1b.png"}

(***************************************************************************)
(* C23: when two accepted uploads to the same review run concurrently and  *)
(* both complete, image_path ends up as the path written by the upload     *)
(* that committed last, and the file it references exists.                 *)
(***************************************************************************)
\* q was accepted for the same review and is still running, or has
\* completed and not yet been answered, when p commits
Overlaps(p, q) ==
    /\ q # p
    /\ IsUpload(q)
    /\ req[q].rid = req[p].rid
    /\ req[q].name # ""

C23_LastWriterWins ==
    [][\A p, q \in Procs :
          (UploadCommits(p) /\ Overlaps(p, q) /\ UploadSucceeded(q)) =>
              /\ db'[req[p].rid].image_path
                    = relative_path(req[p].rid, req[p].name)
              /\ req[p].name # req[q].name
              /\ FileExists(req[p].rid, db'[req[p].rid].image_path)]_vars

(***************************************************************************)
(* C24: upload and delete of the same review do not exclude each other.    *)
(* After its existence check an upload never looks at the record again     *)
(* before its commit: its mkdir and its write go ahead whatever a delete   *)
(* has done meanwhile, so the write of an upload whose directory is there  *)
(* saves the file even when the record is gone.  The interleaving of the   *)
(* claim (check, purge and removal of the record, write) is the witness.   *)
(***************************************************************************)
C24_UploadWritesWithoutRecord ==
    [][\A p \in Procs :
          /\ (pc[p] = "mkdir" /\ pc'[p] # "mkdir") =>
                /\ pc'[p] = "write"
                /\ DirExists(req[p].rid)'
          /\ (pc[p] = "write" /\ pc'[p] # "write" /\ DirExists(req[p].rid)) =>
                /\ pc'[p] = "commit"
                /\ req[p].name \in FilesOf(fs', req[p].rid)]_vars

C24_Witness ==
    \E p, q \in Procs :
        /\ pc[p] = "commit" /\ IsUpload(p)
        /\ pc[q] = "done" /\ IsDelete(q) /\ resp[q].status = 204
        /\ req[q].rid = req[p].rid
        /\ req[q].purge = "removed"
        /\ req[p].rid \notin DOMAIN db
        /\ DirExists(req[p].rid)
        /\ DOMAIN fs[req[p].rid] = {req[p].name}

(***************************************************************************)
(* C25: delete_review touches the file system only when the stored         *)
(* image_path is set.  The purge is skipped exactly when image_path is     *)
(* empty at the start of the delete; a delete that skipped it never        *)
(* reaches the purge step and none of its steps changes the file system,   *)
(* so a directory that exists for the review stays as it is; and a step    *)
(* of a delete that does change the file system is its purge step.         *)
(***************************************************************************)
C25_NoPurgeWithoutImagePath ==
    [][\A p \in Procs :
          (pc'[p] # pc[p] /\ pc[p] # "done" /\ req'[p].op = "delete") =>
              /\ (pc[p] = "idle" /\ req'[p].rid \in DOMAIN db) =>
                    (req'[p].purge = "skipped"
                        <=> ~Truthy(db[req'[p].rid].image_path))
              /\ req'[p].purge = "skipped" =>
                    /\ fs' = fs
                    /\ pc'[p] # "purge"
              /\ fs' # fs => pc[p] = "purge"]_vars

C25_Witness ==
    \E p \in Procs :
        /\ pc[p] = "done" /\ IsDelete(p) /\ resp[p].status = 204
        /\ req[p].purge = "skipped"
        /\ req[p].rid \notin DOMAIN db
        /\ DirExists(req[p].rid)
        /\ fs[req[p].rid] # EmptyDir

(***************************************************************************)
(* C26: upload_review_image reports the first check that fails, in the     *)
(* order review exists, declared type, size, signature.  The step that     *)
(* takes up an upload answers 404 for a missing review whatever else is    *)
(* wrong with the request; for a stored review "File must be an image"     *)
(* for a non-image declared type whatever the payload; the size message    *)
(* for an oversized payload of image type whatever its bytes; the format   *)
(* message only when type and size are in order; and it goes on to save    *)
(* the file only when no check fails.                                      *)
(***************************************************************************)
C26_FirstFailingCheckIsReported ==
    [][\A p \in Procs :
          (pc[p] = "idle" /\ pc'[p] # "idle" /\ req'[p].op = "upload"
              /\ inbox[p] # NoInbox) =>
             LET found == inbox[p].rid \in DOMAIN db
                 typeBad == ~DeclaredImage(inbox[p].content_type)
                 sizeBad == inbox[p].content.size > MAX_IMAGE_SIZE
                 sigBad == ~StartsWithSignature(inbox[p].content)
             IN  resp'[p] =
                    CASE ~found -> Response(404, "Review not found")
                      [] found /\ typeBad ->
                            Response(400, "File must be an image")
                      [] found /\ ~typeBad /\ sizeBad ->
                            Response(400, SizeDetail)
                      [] found /\ ~typeBad /\ ~sizeBad /\ sigBad ->
                            Response(400, "Invalid image file format")
                      [] OTHER -> NoResponse]_vars

\* C26 witness: a request for a stored review that fails the type check, the
\* size check and the signature check at once was answered with the message
\* of the type check.
C26_Witness ==
    /\ Handled("w1")
    /\ pc["w1"] = "done"
    /\ inbox["w1"].content_type = "text/plain"
    /\ inbox["w1"].content.size > MAX_IMAGE_SIZE
    /\ ~StartsWithSignature(inbox["w1"].content)
    /\ resp["w1"] = Response(400, "File must be an image")

(***************************************************************************)
(* Properties of the rate limiter                                          *)
(***************************************************************************)
\* the calls of is_allowed that returned True / False
IsGrant(c) == c.op = "is_allowed" /\ c.allowed
IsDenial(c) == c.op = "is_allowed" /\ ~c.allowed

\* the step is a call that is appended to calls
Calling == Len(calls') = Len(calls) + 1
TheCall == calls'[Len(calls')]

\* the calls of is_allowed by user_id that returned True at a time within
\* from..until
GrantsWithin(user_id, from, until) ==
    {i \in DOMAIN calls :
        /\ IsGrant(calls[i])
        /\ calls[i].user_id = user_id
        /\ from <= calls[i].at
        /\ calls[i].at <= until}

\* the calls of is_allowed by user_id that returned True and were counted
\* in the window that began at window_start
GrantsOfWindow(user_id, window_start) ==
    {i \in DOMAIN calls :
        /\ IsGrant(calls[i])
        /\ calls[i].user_id = user_id
        /\ calls[i].window_start = window_start}

(***************************************************************************)
(* C27: for every user at most max_requests calls of is_allowed return     *)
(* True within one window: of the calls counted in the window of one       *)
(* window_start, and of the calls made from that window_start until        *)
(* window_seconds later; the stored count never exceeds max_requests; and  *)
(* a call that returns False leaves every entry as it was.                 *)
(***************************************************************************)
C27_AtMostMaxRequestsPerWindow ==
    /\ [](\A i \in DOMAIN calls :
            IsGrant(calls[i]) =>
               /\ Cardinality(GrantsOfWindow(calls[i].user_id,
                                             calls[i].window_start))
                     <= limiter.max_requests
               /\ Cardinality(GrantsWithin(calls[i].user_id,
                                           calls[i].window_start,
                                           calls[i].window_start
                                              + limiter.window_seconds - 1))
                     <= limiter.max_requests)
    /\ [](\A user_id \in DOMAIN limiter.entries :
            limiter.entries[user_id].count <= limiter.max_requests)
    /\ [][(Calling /\ IsDenial(TheCall)) => limiter' = limiter]_vars

\* C27 witness: a user has been allowed max_requests times in one window, the
\* count stands at max_requests, and the next call in that window was denied.
C27_Witness ==
    \E user_id \in DOMAIN limiter.entries :
        /\ limiter.max_requests = MaxRequests
        /\ limiter.entries[user_id].count = limiter.max_requests
        /\ Cardinality(GrantsOfWindow(user_id,
                          limiter.entries[user_id].window_start))
              = limiter.max_requests
        /\ calls # <<>>
        /\ IsDenial(calls[Len(calls)])
        /\ calls[Len(calls)].user_id = user_id
        /\ calls[Len(calls)].at - limiter.entries[user_id].window_start
              < limiter.window_seconds

(***************************************************************************)
(* C28: get_retry_after returns a number from 0 to window_seconds, 0 for   *)
(* a user without entry, and for a user with an entry the time until the   *)
(* window of the entry is over: the least wait after which is_allowed      *)
(* starts a new window.  And a user who was denied, asked get_retry_after  *)
(* and calls is_allowed next when at least the returned time has passed    *)
(* is allowed.                                                             *)
(***************************************************************************)
C28_RetryAfterIsTimeUntilReset ==
    [][Calling =>
         /\ TheCall.op = "get_retry_after" =>
               LET user_id == TheCall.user_id
                   r == TheCall.retry_after
               IN  /\ 0 <= r
                   /\ r <= limiter.window_seconds
                   /\ user_id \notin DOMAIN limiter.entries => r = 0
                   /\ user_id \in DOMAIN limiter.entries =>
                         LET start == limiter.entries[user_id].window_start
                         IN  /\ clock + r - start >= limiter.window_seconds
                             /\ r > 0 =>
                                   clock + r - 1 - start
                                      < limiter.window_seconds
         /\ TheCall.op = "is_allowed" =>
               \A i, j \in DOMAIN calls :
                   (/\ i < j
                    /\ IsDenial(calls[i])
                    /\ calls[i].user_id = TheCall.user_id
                    /\ calls[j].op = "get_retry_after"
                    /\ calls[j].user_id = TheCall.user_id
                    /\ \A k \in DOMAIN calls :
                          (k > i /\ calls[k].user_id = TheCall.user_id)
                             => calls[k].op # "is_allowed"
                    /\ TheCall.at >= calls[j].at + calls[j].retry_after)
                   => TheCall.allowed]_vars

\* C28 witness: a user was denied, was told to wait a positive time, waited
\* exactly that long and was allowed by the next call.
C28_Witness ==
    /\ Len(calls) >= 3
    /\ LET n == Len(calls)
       IN  /\ IsDenial(calls[n - 2])
           /\ calls[n - 1].op = "get_retry_after"
           /\ calls[n - 1].retry_after > 0
           /\ IsGrant(calls[n])
           /\ calls[n].user_id = calls[n - 1].user_id
           /\ calls[n - 2].user_id = calls[n - 1].user_id
           /\ calls[n].at = calls[n - 1].at + calls[n - 1].retry_after
           /\ limiter.entries[calls[n].user_id] =
                 RateLimitEntry(1, calls[n].at)

(***************************************************************************)
(* C29: for every user and every interval of window_seconds, wherever it   *)
(* begins, at most 2 * max_requests calls of is_allowed made within the    *)
(* interval (its two ends included) return True.                           *)
(***************************************************************************)
C29_AtMostTwiceMaxRequestsPerInterval ==
    \A user_id \in UserIds, from \in 0..MaxTime :
        Cardinality(GrantsWithin(user_id, from,
                                 from + limiter.window_seconds))
           <= 2 * limiter.max_requests

\* C29 witness: an interval of window_seconds holds 2 * max_requests allowed
\* calls of one user, max_requests on each side of a window reset.
C29_Witness ==
    \E user_id \in UserIds, from \in 0..MaxTime :
        LET within == GrantsWithin(user_id, from,
                                   from + limiter.window_seconds)
        IN  /\ limiter.max_requests = MaxRequests
            /\ Cardinality(within) = 2 * limiter.max_requests
            /\ Cardinality({calls[i].window_start : i \in within}) = 2

(***************************************************************************)
(* C30: when the photo "delete" action of the bot shows the image-deleted  *)
(* message, the review it was used on has no image any more: its stored    *)
(* image_path is empty and the review as GET returns it has image_url      *)
(* null.                                                                   *)
(***************************************************************************)
C30_ImageDeletedMessageMeansNoImage ==
    [][(bot' # bot /\ bot'.action = "delete"
           /\ bot'.text = MSG_IMAGE_DELETED) =>
          /\ bot'.review_id \in DOMAIN db'
          /\ db'[bot'.review_id].image_path = None
          /\ ReviewRead(bot'.review_id, db'[bot'.review_id]).image_url
                = None]_vars

====
